---------------------------- MODULE Spec2Model ----------------------------
(***************************************************************************)
(* Model of urhythmic/rhythm.py: the two rhythm models                     *)
(* (RhythmModelFineGrained, RhythmModelGlobal) and segment_rate.           *)
(*                                                                         *)
(* Numbers.  Frame counts are integers.  A duration in seconds is kept     *)
(* exactly, as a whole number of audio samples (1/sample_rate s): the      *)
(* float hop_rate * d is hop_length * d samples.  A speaking rate is kept  *)
(* exactly, as a reduced fraction <<n, d>> (per second); <<0, 0>> is NaN   *)
(* and <<1, 0>> is +infinity.  All rates of the model are numpy float64    *)
(* values (np.mean's result), whose division by zero yields inf or nan     *)
(* with a warning instead of raising.                                      *)
(*                                                                         *)
(* Distributions.  scipy's gamma MLE, cdf and ppf are library code.  The   *)
(* fitted shape and scale are kept as symbolic terms over the sample array *)
(* they were fitted from, [p |-> "a", of |-> samples]: two fits are equal  *)
(* when they were computed from the same array.  The value of              *)
(* target.ppf(source.cdf(x)) is a choice over what the library can return: *)
(* a finite non-negative number, +infinity or NaN.                         *)
(***************************************************************************)
EXTENDS Integers, Sequences, FiniteSets

VARIABLES
    kind,         \* which class the instance is: "fine" or "global"
    source,       \* RhythmModelFineGrained.source
    target,       \* RhythmModelFineGrained.target
    source_rate,  \* RhythmModelGlobal.source_rate
    target_rate,  \* RhythmModelGlobal.target_rate
    ret           \* the call in progress at the caller: its outcome, or idle

vars == <<kind, source, target, source_rate, target_rate, ret>>

---------------------------------------------------------------------------
(* Bounds of the model *)

\* longest label sequence / duration sequence of an utterance
MaxSegs == 2
\* utterances per batch
MaxBatch == 1
\* segment durations range over ShortSilence .. ShortSilence + DurSpread frames
DurSpread == 1
\* the finite results of the quantile transform range over 0 .. MaxHalfFrames
\* half frames
MaxHalfFrames == 3

(* Program constants *)

hop_length == 320
sample_rate == 16000
\* the "duration <= 3" / "duration > 3 * hop_rate" threshold
ShortSilence == 3
\* np.round(..., 2): times are rounded to 10^-2 s
RoundScale == 100

---------------------------------------------------------------------------
(* urhythmic.utils: the sound types and their two sets *)

Labels == {"son", "obs", "sil"}
SONORANT == {"son"}
SILENCE == {"sil"}

---------------------------------------------------------------------------
(* Arithmetic helpers *)

RECURSIVE GCD(_, _)
GCD(a, b) == IF b = 0 THEN a ELSE GCD(b, a % b)

\* a fraction n/d (d > 0) in lowest terms
Frac(n, d) == LET g == GCD(n, d) IN <<n \div g, d \div g>>

NaN == <<0, 0>>
Inf == <<1, 0>>

\* round half to even of n/d, n >= 0, d > 0 (Python's round, np.round)
RoundHalfEven(n, d) ==
    LET q == n \div d
        r == n % d
    IN  IF 2 * r < d THEN q
        ELSE IF 2 * r > d THEN q + 1
        ELSE IF q % 2 = 0 THEN q ELSE q + 1

RECURSIVE SumSeq(_)
SumSeq(s) == IF Len(s) = 0 THEN 0 ELSE Head(s) + SumSeq(Tail(s))

\* np.diff
Diff(b) == [i \in 1..(IF Len(b) = 0 THEN 0 ELSE Len(b) - 1) |-> b[i + 1] - b[i]]

Min(a, b) == IF a < b THEN a ELSE b

\* zip(xs, ys): as many pairs as the shorter argument has
Zip(xs, ys) == [i \in 1..Min(Len(xs), Len(ys)) |-> <<xs[i], ys[i]>>]

RECURSIVE SelectIdx(_, _, _)
\* the indices i in lo..n with P[i], in increasing order
SelectIdx(P, lo, n) ==
    IF lo > n THEN <<>>
    ELSE IF P[lo] THEN <<lo>> \o SelectIdx(P, lo + 1, n)
    ELSE SelectIdx(P, lo + 1, n)

EmptyMap == [l \in {} |-> 0]

---------------------------------------------------------------------------
(* Inputs: segmented utterances and batches of them *)

RECURSIVE SeqsUpTo(_, _)
\* the sequences over S of length 0..n
SeqsUpTo(S, n) ==
    IF n = 0 THEN {<<>>}
    ELSE LET shorter == SeqsUpTo(S, n - 1)
         IN  shorter \cup {Append(s, x) : s \in {t \in shorter : Len(t) = n - 1}, x \in S}

Durations == ShortSilence .. (ShortSilence + DurSpread)

RECURSIVE BoundariesOf(_, _)
\* the boundaries, from frame `from`, of segments lasting ds
BoundariesOf(from, ds) ==
    IF ds = <<>> THEN <<from>>
    ELSE <<from>> \o BoundariesOf(from + Head(ds), Tail(ds))

\* an utterance is <<clusters, boundaries>>; every boundary sequence is strictly
\* increasing, the two lengths are independent
Utterances ==
    {<<cs, BoundariesOf(0, ds)>> :
        cs \in SeqsUpTo(Labels, MaxSegs), ds \in SeqsUpTo(Durations, MaxSegs)}

\* the length invariant of an utterance
WellFormed(u) == Len(u[2]) = Len(u[1]) + 1

ValidUtterances == {u \in Utterances : WellFormed(u)}

Batches == SeqsUpTo(Utterances, MaxBatch)

---------------------------------------------------------------------------
(* segment_rate and RhythmModelGlobal._fit *)

\* np.round(np.array(boundaries) * unit_rate, 2), in units of 1/RoundScale s,
\* with unit_rate = hop_length / sample_rate
Times(boundaries) ==
    [i \in 1..Len(boundaries) |->
        RoundHalfEven(boundaries[i] * hop_length * RoundScale, sample_rate)]

\* itertools.pairwise
Pairwise(t) == [i \in 1..(IF Len(t) = 0 THEN 0 ELSE Len(t) - 1) |-> <<t[i], t[i + 1]>>]

\* the (code, t0, tn) triples of the segments whose code is not in silence
RateSegments(codes, boundaries, silence) ==
    LET z == Zip(codes, Pairwise(Times(boundaries)))
        keep == SelectIdx([i \in 1..Len(z) |-> z[i][1] \notin silence], 1, Len(z))
    IN  [k \in 1..Len(keep) |-> <<z[keep[k]][1], z[keep[k]][2][1], z[keep[k]][2][2]>>]

segment_rate(codes, boundaries, sonorant, silence) ==
    LET segments == RateSegments(codes, boundaries, silence)
        count == Cardinality({k \in 1..Len(segments) : segments[k][1] \in sonorant})
        total == SumSeq([k \in 1..Len(segments) |-> segments[k][3] - segments[k][2]])
    IN  IF Len(segments) = 0
        THEN [status |-> "error", exc |-> "ZeroDivisionError", val |-> NaN]
        ELSE IF total = 0
        THEN [status |-> "ok", exc |-> "", val |-> IF count = 0 THEN NaN ELSE Inf]
        ELSE [status |-> "ok", exc |-> "", val |-> Frac(count * RoundScale, total)]

IsNaN(r) == r = NaN

RateAdd(x, y) ==
    IF IsNaN(x) \/ IsNaN(y) THEN NaN
    ELSE IF x = Inf \/ y = Inf THEN Inf
    ELSE Frac(x[1] * y[2] + y[1] * x[2], x[2] * y[2])

RECURSIVE RateSum(_)
RateSum(rs) == IF Len(rs) = 0 THEN <<0, 1>> ELSE RateAdd(Head(rs), RateSum(Tail(rs)))

\* np.mean of a list of rates; the mean of an empty list is nan
Mean(rs) ==
    IF Len(rs) = 0 THEN NaN
    ELSE LET s == RateSum(rs)
         IN  IF s[2] = 0 THEN s ELSE Frac(s[1], s[2] * Len(rs))

\* x / y on float64 scalars: a zero divisor gives inf or nan, never an exception
RateDiv(x, y) ==
    IF IsNaN(x) \/ IsNaN(y) THEN NaN
    ELSE IF y[1] = 0 THEN (IF x[1] = 0 THEN NaN ELSE Inf)
    ELSE IF y = Inf THEN (IF x = Inf THEN NaN ELSE <<0, 1>>)
    ELSE IF x = Inf THEN Inf
    ELSE Frac(x[1] * y[2], x[2] * y[1])

GlobalFit(utterances) ==
    LET rates == [i \in 1..Len(utterances) |->
                    segment_rate(utterances[i][1], utterances[i][2], SONORANT, SILENCE)]
    IN  IF \E i \in 1..Len(rates) : rates[i].status = "error"
        THEN [status |-> "error", exc |-> "ZeroDivisionError", val |-> NaN]
        ELSE [status |-> "ok", exc |-> "",
              val |-> Mean([i \in 1..Len(rates) |-> rates[i].val])]

---------------------------------------------------------------------------
(* RhythmModelFineGrained: tally, fit, serialization, transform *)

\* hop_rate * duration, in samples (1/sample_rate s)
Seconds(duration) == hop_length * duration

\* the filter of _tally_durations: "cluster in SILENCE and duration <= 3"
TallyDiscards(cluster, duration) == cluster \in SILENCE /\ duration <= ShortSilence

\* the (cluster, duration) pairs one utterance contributes to the tally, in order
TallyKept(u) ==
    LET z == Zip(u[1], Diff(u[2]))
        keep == SelectIdx([i \in 1..Len(z) |-> ~TallyDiscards(z[i][1], z[i][2])], 1, Len(z))
    IN  [k \in 1..Len(keep) |-> z[keep[k]]]

RECURSIVE TallyPairs(_)
\* the pairs a batch contributes, utterance after utterance
TallyPairs(utterances) ==
    IF Len(utterances) = 0 THEN <<>>
    ELSE TallyKept(Head(utterances)) \o TallyPairs(Tail(utterances))

\* _tally_durations: cluster -> array of its durations in seconds, in order of
\* appearance; only clusters with a retained sample are keys
tally_durations(utterances) ==
    LET pairs == TallyPairs(utterances)
        keys == {pairs[i][1] : i \in 1..Len(pairs)}
    IN  [c \in keys |->
            LET idx == SelectIdx([i \in 1..Len(pairs) |-> pairs[i][1] = c], 1, Len(pairs))
            IN  [k \in 1..Len(idx) |-> Seconds(pairs[idx[k]][2])]]

\* a sample array without spread (a single sample, or equal samples): the
\* likelihood equation of the gamma shape has no finite root
Degenerate(samples) == \A i \in 1..Len(samples) : samples[i] = samples[1]

\* stats.gamma.fit(durations, floc=0): the (a, loc, scale) triple
GammaFit(samples) ==
    <<[p |-> "a", of |-> samples], [p |-> "loc", of |-> <<>>], [p |-> "scale", of |-> samples]>>

\* RhythmModelFineGrained._fit: cluster -> (a, loc, scale)
FineFit(utterances) ==
    LET duration_tally == tally_durations(utterances)
    IN  [c \in DOMAIN duration_tally |-> GammaFit(duration_tally[c])]

\* whether some cluster of the batch has a sample array without spread
FitDegenerate(utterances) ==
    LET duration_tally == tally_durations(utterances)
    IN  \E c \in DOMAIN duration_tally : Degenerate(duration_tally[c])

\* stats.gamma(a, scale=scale): the frozen distribution, args = (a,), kwds = {scale}
Frozen(a, scale) == [a |-> a, scale |-> scale]

\* {cluster: stats.gamma(a, scale=scale) for cluster, (a, _, scale) in m.items()}:
\* unpacking a tuple that has not exactly three elements raises ValueError
Unpackable(m) == \A c \in DOMAIN m : Len(m[c]) = 3

Wrap(m) == [c \in DOMAIN m |-> Frozen(m[c][1], m[c][3])]

\* a side of a model: None, or a value
NoneSide == [set |-> FALSE, d |-> EmptyMap]
Some(d) == [set |-> TRUE, d |-> d]

\* Python truth of a side: not None and not an empty dict
TruthySide(side) == side.set /\ DOMAIN side.d # {}

\* the entries state_dict writes for a side: (dist.args[0], dist.kwds["scale"])
DumpSide(side) == [c \in DOMAIN side.d |-> <<side.d[c].a, side.d[c].scale>>]

\* RhythmModelFineGrained.state_dict
FineStateDict(src, tgt) ==
    LET keys == (IF TruthySide(src) THEN {"source"} ELSE {})
                \cup (IF TruthySide(tgt) THEN {"target"} ELSE {})
    IN  [k \in keys |-> IF k = "source" THEN DumpSide(src) ELSE DumpSide(tgt)]

\* RhythmModelFineGrained.load_state_dict: the sides after the call and whether
\* it raised; "source" is rebuilt and assigned before "target" is looked at
FineLoad(src, tgt, state_dict) ==
    IF "source" \in DOMAIN state_dict /\ ~Unpackable(state_dict["source"])
    THEN [status |-> "error", exc |-> "ValueError", source |-> src, target |-> tgt]
    ELSE LET src1 == IF "source" \in DOMAIN state_dict
                     THEN Some(Wrap(state_dict["source"])) ELSE src
         IN  IF "target" \in DOMAIN state_dict /\ ~Unpackable(state_dict["target"])
             THEN [status |-> "error", exc |-> "ValueError", source |-> src1, target |-> tgt]
             ELSE [status |-> "ok", exc |-> "", source |-> src1,
                   target |-> IF "target" \in DOMAIN state_dict
                              THEN Some(Wrap(state_dict["target"])) ELSE tgt]

\* a test that also keeps the silences of exactly three frames
CallIncludesFromThree(cluster, seconds) ==
    cluster \notin SILENCE \/ seconds >= ShortSilence * hop_length

\* the test of __call__: "cluster not in SILENCE or duration > 3 * self.hop_rate"
CallIncludes(cluster, seconds) ==
    cluster \notin SILENCE \/ seconds > ShortSilence * hop_length

\* what target.ppf(source.cdf(sample)) can be: NaN, +infinity, or a finite
\* number of seconds >= 0 (kept in samples; half frames, so that rounding acts)
TransformOutcomes ==
    {[k |-> "nan", v |-> 0], [k |-> "inf", v |-> 0]}
    \cup {[k |-> "fin", v |-> h * (hop_length \div 2)] : h \in 0..MaxHalfFrames}

\* a test that transforms whenever the source has the cluster, whether or not
\* the target has it
SegmentBranchSourceOnly(src, tgt, cluster) ==
    IF ~src.set THEN "raise"
    ELSE IF cluster \notin DOMAIN src.d THEN "pass"
    ELSE IF ~tgt.set THEN "raise"
    ELSE "transform"

\* what __call__ does with one included segment:
\*   "raise"     the membership test meets None (TypeError)
\*   "transform" the cluster has a distribution on both sides
\*   "pass"      otherwise
\* "cluster in self.source and cluster in self.target" tests the source first
\* and the target only when the source has the cluster
SegmentBranch(src, tgt, cluster) ==
    IF ~src.set THEN "raise"
    ELSE IF cluster \notin DOMAIN src.d THEN "pass"
    ELSE IF ~tgt.set THEN "raise"
    ELSE IF cluster \in DOMAIN tgt.d THEN "transform"
    ELSE "pass"

\* the included segments of __call__, in order: cluster, duration in seconds
\* and the branch taken
CallPlan(src, tgt, clusters, boundaries) ==
    LET z == Zip(clusters, Diff(boundaries))
        keep == SelectIdx([i \in 1..Len(z) |-> CallIncludes(z[i][1], Seconds(z[i][2]))],
                          1, Len(z))
    IN  [k \in 1..Len(keep) |->
            [cluster |-> z[keep[k]][1], duration |-> Seconds(z[keep[k]][2]),
             branch |-> SegmentBranch(src, tgt, z[keep[k]][1])]]

\* round(duration / self.hop_rate)
ToFrames(seconds) == RoundHalfEven(seconds, hop_length)

\* RhythmModelFineGrained.__call__, `pick` giving the transform's value for each
\* included segment that is transformed.  A NaN is replaced by the duration; an
\* infinity reaches round(), which raises OverflowError.
FineCall(src, tgt, clusters, boundaries, pick) ==
    LET plan == CallPlan(src, tgt, clusters, boundaries)
        new_durations ==
            [k \in 1..Len(plan) |->
                IF plan[k].branch = "transform" /\ pick[k].k # "nan"
                THEN pick[k]
                ELSE [k |-> "fin", v |-> plan[k].duration]]
    IN  IF \E k \in 1..Len(plan) : plan[k].branch = "raise"
        THEN [status |-> "error", exc |-> "TypeError", val |-> <<>>]
        ELSE IF \E k \in 1..Len(plan) : new_durations[k].k = "inf"
        THEN [status |-> "error", exc |-> "OverflowError", val |-> <<>>]
        ELSE [status |-> "ok", exc |-> "",
              val |-> [k \in 1..Len(plan) |-> ToFrames(new_durations[k].v)]]

\* the choices of transform values for a plan: one per transformed segment
Picks(plan) ==
    {f \in [1..Len(plan) -> TransformOutcomes] :
        \A k \in 1..Len(plan) : plan[k].branch # "transform" => f[k].k = "nan"}

---------------------------------------------------------------------------
(* RhythmModelGlobal: serialization and the ratio *)

NoneRate == [set |-> FALSE, r |-> NaN]
SomeRate(r) == [set |-> TRUE, r |-> r]

\* Python truth of a rate: not None and not 0.0 (nan is true)
TruthyRate(rate) == rate.set /\ (IsNaN(rate.r) \/ rate.r[1] # 0)

\* RhythmModelGlobal.state_dict
GlobalStateDict(srate, trate) ==
    LET keys == (IF TruthyRate(srate) THEN {"source_rate"} ELSE {})
                \cup (IF TruthyRate(trate) THEN {"target_rate"} ELSE {})
    IN  [k \in keys |-> IF k = "source_rate" THEN srate.r ELSE trate.r]

\* RhythmModelGlobal.load_state_dict
GlobalLoad(srate, trate, state_dict) ==
    [source_rate |-> IF "source_rate" \in DOMAIN state_dict
                     THEN SomeRate(state_dict["source_rate"]) ELSE srate,
     target_rate |-> IF "target_rate" \in DOMAIN state_dict
                     THEN SomeRate(state_dict["target_rate"]) ELSE trate]

\* RhythmModelGlobal.__call__: None as an operand raises TypeError
GlobalCall(srate, trate) ==
    IF ~srate.set \/ ~trate.set
    THEN [status |-> "error", exc |-> "TypeError", val |-> NaN]
    ELSE [status |-> "ok", exc |-> "", val |-> RateDiv(srate.r, trate.r)]

---------------------------------------------------------------------------
(* The records a caller hands to load_state_dict *)

\* a side's entries as (a, loc, scale) triples, the layout of gamma.fit's result
TripleSide(side) ==
    [c \in DOMAIN side.d |-> <<side.d[c].a, [p |-> "loc", of |-> <<>>], side.d[c].scale>>]

\* cluster mappings a record may hold: empty, or the distributions of a fitted
\* side, as state_dict writes them or as triples
FineMaps(src, tgt) ==
    {EmptyMap}
    \cup {DumpSide(side) : side \in {x \in {src, tgt} : x.set}}
    \cup {TripleSide(side) : side \in {x \in {src, tgt} : x.set}}

FineRecords(src, tgt) ==
    UNION {[keys -> FineMaps(src, tgt)] : keys \in SUBSET {"source", "target"}}

\* rates a record may hold: those state_dict writes
GlobalRecords(srate, trate) ==
    UNION {[keys -> {x.r : x \in {y \in {srate, trate} : TruthyRate(y)}}] :
              keys \in SUBSET {"source_rate", "target_rate"}}

---------------------------------------------------------------------------
(* The state machine: one model instance and its single-threaded caller *)

Idle == [op |-> "idle", status |-> "", exc |-> "", val |-> <<>>, arg |-> <<>>]

Outcome(op, status, exc, val, arg) ==
    [op |-> op, status |-> status, exc |-> exc, val |-> val, arg |-> arg]

Init ==
    /\ kind \in {"fine", "global"}
    /\ source = NoneSide
    /\ target = NoneSide
    /\ source_rate = NoneRate
    /\ target_rate = NoneRate
    /\ ret = Idle

\* whether gamma.fit raises on this batch: only a sample array without spread
\* can make it raise, and whether it does is the library's
FitRaises(utterances) == IF FitDegenerate(utterances) THEN {TRUE, FALSE} ELSE {FALSE}

\* a fit that adds the batch's clusters to those already stored
FittedSideMerging(old, fitted) ==
    LET new == Wrap(fitted)
    IN  Some([c \in DOMAIN old.d \cup DOMAIN new |->
                 IF c \in DOMAIN new THEN new[c] ELSE old.d[c]])

\* self.source = {cluster: stats.gamma(a, scale=scale) ...}: the side after a fit
FittedSide(old, fitted) == Some(Wrap(fitted))

\* RhythmModelFineGrained.fit_source
FineFitSource(utterances) ==
    /\ kind = "fine" /\ ret.op = "idle"
    /\ \E raises \in FitRaises(utterances) :
          IF raises
          THEN /\ ret' = Outcome("fit_source", "error", "FitError", <<>>, utterances)
               /\ UNCHANGED source
          ELSE /\ source' = FittedSide(source, FineFit(utterances))
               /\ ret' = Outcome("fit_source", "ok", "", <<>>, utterances)
    /\ UNCHANGED <<kind, target, source_rate, target_rate>>

\* RhythmModelFineGrained.fit_target
FineFitTarget(utterances) ==
    /\ kind = "fine" /\ ret.op = "idle"
    /\ \E raises \in FitRaises(utterances) :
          IF raises
          THEN /\ ret' = Outcome("fit_target", "error", "FitError", <<>>, utterances)
               /\ UNCHANGED target
          ELSE /\ target' = FittedSide(target, FineFit(utterances))
               /\ ret' = Outcome("fit_target", "ok", "", <<>>, utterances)
    /\ UNCHANGED <<kind, source, source_rate, target_rate>>

\* RhythmModelFineGrained.state_dict
FineStateDictCall ==
    /\ kind = "fine" /\ ret.op = "idle"
    /\ ret' = Outcome("state_dict", "ok", "", FineStateDict(source, target), <<>>)
    /\ UNCHANGED <<kind, source, target, source_rate, target_rate>>

\* RhythmModelFineGrained.load_state_dict
FineLoadStateDict(state_dict) ==
    /\ kind = "fine" /\ ret.op = "idle"
    /\ LET r == FineLoad(source, target, state_dict)
       IN  /\ source' = r.source
           /\ target' = r.target
           /\ ret' = Outcome("load_state_dict", r.status, r.exc, <<>>, state_dict)
    /\ UNCHANGED <<kind, source_rate, target_rate>>

\* RhythmModelFineGrained.__call__
FineCallOp(u) ==
    /\ kind = "fine" /\ ret.op = "idle"
    /\ \E pick \in Picks(CallPlan(source, target, u[1], u[2])) :
          LET r == FineCall(source, target, u[1], u[2], pick)
          IN  ret' = Outcome("call", r.status, r.exc, r.val, u)
    /\ UNCHANGED <<kind, source, target, source_rate, target_rate>>

\* RhythmModelGlobal.fit_source
GlobalFitSource(utterances) ==
    /\ kind = "global" /\ ret.op = "idle"
    /\ LET r == GlobalFit(utterances)
       IN  /\ source_rate' = IF r.status = "ok" THEN SomeRate(r.val) ELSE source_rate
           /\ ret' = Outcome("fit_source", r.status, r.exc, <<>>, utterances)
    /\ UNCHANGED <<kind, source, target, target_rate>>

\* RhythmModelGlobal.fit_target
GlobalFitTarget(utterances) ==
    /\ kind = "global" /\ ret.op = "idle"
    /\ LET r == GlobalFit(utterances)
       IN  /\ target_rate' = IF r.status = "ok" THEN SomeRate(r.val) ELSE target_rate
           /\ ret' = Outcome("fit_target", r.status, r.exc, <<>>, utterances)
    /\ UNCHANGED <<kind, source, target, source_rate>>

\* RhythmModelGlobal.state_dict
GlobalStateDictCall ==
    /\ kind = "global" /\ ret.op = "idle"
    /\ ret' = Outcome("state_dict", "ok", "", GlobalStateDict(source_rate, target_rate), <<>>)
    /\ UNCHANGED <<kind, source, target, source_rate, target_rate>>

\* RhythmModelGlobal.load_state_dict
GlobalLoadStateDict(state_dict) ==
    /\ kind = "global" /\ ret.op = "idle"
    /\ LET r == GlobalLoad(source_rate, target_rate, state_dict)
       IN  /\ source_rate' = r.source_rate
           /\ target_rate' = r.target_rate
    /\ ret' = Outcome("load_state_dict", "ok", "", <<>>, state_dict)
    /\ UNCHANGED <<kind, source, target>>

\* RhythmModelGlobal.__call__
GlobalCallOp ==
    /\ kind = "global" /\ ret.op = "idle"
    /\ LET r == GlobalCall(source_rate, target_rate)
       IN  ret' = Outcome("call", r.status, r.exc, r.val, <<>>)
    /\ UNCHANGED <<kind, source, target, source_rate, target_rate>>

\* segment_rate called on its own (a module-level function; the model has the
\* caller of the Global model call it), with the default sets and the unit
\* rate the Global model passes
SegmentRateOp(u) ==
    /\ kind = "global" /\ ret.op = "idle"
    /\ LET r == segment_rate(u[1], u[2], SONORANT, SILENCE)
       IN  ret' = Outcome("segment_rate", r.status, r.exc, r.val, u)
    /\ UNCHANGED <<kind, source, target, source_rate, target_rate>>

\* the caller takes the outcome (the value or the exception) and goes on
Return ==
    /\ ret.op # "idle"
    /\ ret' = Idle
    /\ UNCHANGED <<kind, source, target, source_rate, target_rate>>

Next ==
    \/ \E b \in Batches : FineFitSource(b)
    \/ \E b \in Batches : FineFitTarget(b)
    \/ FineStateDictCall
    \/ \E r \in FineRecords(source, target) : FineLoadStateDict(r)
    \/ \E u \in ValidUtterances : FineCallOp(u)
    \/ \E b \in Batches : GlobalFitSource(b)
    \/ \E b \in Batches : GlobalFitTarget(b)
    \/ GlobalStateDictCall
    \/ \E r \in GlobalRecords(source_rate, target_rate) : GlobalLoadStateDict(r)
    \/ GlobalCallOp
    \/ \E u \in Utterances : SegmentRateOp(u)
    \/ Return

Spec == Init /\ [][Next]_vars

---------------------------------------------------------------------------
(* Properties *)

FitOps == {"fit_source", "fit_target"}

\* the frame durations of an utterance's segments, paired with their labels
SegmentsOf(u) == Zip(u[1], Diff(u[2]))

\* C1: load_state_dict(state_dict()) on a fine-grained model whose two sides
\* each hold at least one cluster succeeds (and so leaves every cluster's
\* (shape, scale) pair as it was).
C1_RoundTripSucceeds ==
    (/\ kind = "fine"
     /\ ret.op = "load_state_dict"
     /\ TruthySide(source) /\ TruthySide(target)
     /\ ret.arg = FineStateDict(source, target))
    => ret.status = "ok"

\* C2: in both models, an inference call made while the source side or the
\* target side is still unfit ends in an error.
C2_UnfitCallRaises ==
    (/\ ret.op = "call"
     /\ IF kind = "fine" THEN ~source.set \/ ~target.set
                         ELSE ~source_rate.set \/ ~target_rate.set)
    => ret.status = "error"

\* C3: the Global model's call with both rates fit and a zero target rate ends
\* in an error.
C3_ZeroRateRaises ==
    (/\ kind = "global"
     /\ ret.op = "call"
     /\ source_rate.set /\ target_rate.set
     /\ target_rate.r = <<0, 1>>)
    => ret.status = "error"

IncludedSegments(u) ==
    LET segs == SegmentsOf(u)
        keep == SelectIdx([i \in 1..Len(segs) |->
                              ~(segs[i][1] \in SILENCE /\ segs[i][2] <= ShortSilence)],
                          1, Len(segs))
    IN  [k \in 1..Len(keep) |-> segs[keep[k]]]

\* C5: with both sides fit, a returned fine-grained call gives every included
\* segment whose cluster lacks a distribution on the source side or on the
\* target side its original frame duration.
C5_Fallback ==
    (kind = "fine" /\ ret.op = "call" /\ ret.status = "ok" /\ source.set /\ target.set)
    => LET inc == IncludedSegments(ret.arg)
       IN  /\ Len(ret.val) = Len(inc)
           /\ \A k \in 1..Len(inc) :
                 (inc[k][1] \notin DOMAIN source.d \/ inc[k][1] \notin DOMAIN target.d)
                 => ret.val[k] = inc[k][2]

\* a returned call with a segment whose cluster is fitted on the source side only
C5_Witness ==
    /\ kind = "fine" /\ ret.op = "call" /\ ret.status = "ok"
    /\ source.set /\ target.set
    /\ \E k \in 1..Len(IncludedSegments(ret.arg)) :
          /\ IncludedSegments(ret.arg)[k][1] \in DOMAIN source.d
          /\ IncludedSegments(ret.arg)[k][1] \notin DOMAIN target.d
          /\ ret.val[k] = IncludedSegments(ret.arg)[k][2]

\* C6: segment_rate on an utterance that satisfies the length invariant returns
\* a value >= 0, and 0 exactly when no label is in the sonorant set.
C6_RateBounds ==
    (ret.op = "segment_rate" /\ WellFormed(ret.arg))
    => /\ ret.status = "ok"
       /\ ret.val[2] > 0 /\ ret.val[1] >= 0
       /\ (ret.val[1] = 0 <=> \A i \in 1..Len(ret.arg[1]) : ret.arg[1][i] \notin SONORANT)

\* C7: a fit_source that returns leaves the target side as it was and the
\* source side equal to what the batch alone gives (what a fresh model would
\* hold after the same call); symmetrically for fit_target; in both models.
C7_FitReplacesSide ==
    [][/\ (ret'.op = "fit_source" /\ ret'.status = "ok")
          => /\ target' = target /\ target_rate' = target_rate
             /\ kind = "fine" => source' = Some(Wrap(FineFit(ret'.arg)))
             /\ kind = "global" => source_rate' = SomeRate(GlobalFit(ret'.arg).val)
       /\ (ret'.op = "fit_target" /\ ret'.status = "ok")
          => /\ source' = source /\ source_rate' = source_rate
             /\ kind = "fine" => target' = Some(Wrap(FineFit(ret'.arg)))
             /\ kind = "global" => target_rate' = SomeRate(GlobalFit(ret'.arg).val)
      ]_vars

\* a source refit with a batch that has none of the clusters of the target side
C7_Witness ==
    /\ kind = "fine" /\ ret.op = "fit_source" /\ ret.status = "ok"
    /\ TruthySide(target) /\ TruthySide(source)
    /\ DOMAIN source.d \cap DOMAIN target.d = {}

\* C8: state_dict's record has the key of every side that has been fit or loaded.
C8_FitSideHasKey ==
    ret.op = "state_dict"
    => IF kind = "fine"
       THEN /\ source.set => "source" \in DOMAIN ret.val
            /\ target.set => "target" \in DOMAIN ret.val
       ELSE /\ source_rate.set => "source_rate" \in DOMAIN ret.val
            /\ target_rate.set => "target_rate" \in DOMAIN ret.val

\* C9: after a load_state_dict that returns, a side whose key is absent from the
\* record is unfit.
C9_AbsentKeyUnfit ==
    (ret.op = "load_state_dict" /\ ret.status = "ok")
    => IF kind = "fine"
       THEN /\ "source" \notin DOMAIN ret.arg => ~source.set
            /\ "target" \notin DOMAIN ret.arg => ~target.set
       ELSE /\ "source_rate" \notin DOMAIN ret.arg => ~source_rate.set
            /\ "target_rate" \notin DOMAIN ret.arg => ~target_rate.set

\* C10: a fit whose batch holds an utterance that violates the length invariant
\* ends in an error.
C10_MalformedBatchRaises ==
    (/\ ret.op \in FitOps
     /\ \E i \in 1..Len(ret.arg) : ~WellFormed(ret.arg[i]))
    => ret.status = "error"

=============================================================================
